---------------------------- MODULE Spec2Model ----------------------------
(***************************************************************************)
(* Model of sdk/bpf/c/inc/sol/string.h: the byte primitives sol_memcpy,    *)
(* sol_memmove, sol_memcmp, sol_memset, sol_strlen and the bump allocator  *)
(* sol_calloc.                                                             *)
(*                                                                         *)
(* A uint64_t is a sequence of 8 bytes, least significant first (the       *)
(* layout of the cursor word in the little-endian BPF heap), because the   *)
(* heap addresses (0x300000000 and up) and the overflow inputs do not fit  *)
(* the integers of the model checker.  All arithmetic is modulo 2^64.      *)
(***************************************************************************)
EXTENDS Integers, Sequences, FiniteSets

VARIABLES cursor, allocs, call, ret, before, minFail, zeroFailed, only4096,
          smallCalls, mem, pre, op, args, res

heapVars == <<cursor, allocs, call, ret, before, minFail, zeroFailed, only4096,
              smallCalls>>
memVars == <<mem, pre, op, args, res>>
vars == <<cursor, allocs, call, ret, before, minFail, zeroFailed, only4096,
          smallCalls, mem, pre, op, args, res>>

(***************************************************************************)
(* uint64_t arithmetic on 8 little-endian bytes.                           *)
(***************************************************************************)
Limbs == 8

Zero64 ==
    <<0, 0, 0, 0, 0, 0, 0, 0>>

One64 ==
    <<1, 0, 0, 0, 0, 0, 0, 0>>

Max64 ==
    <<255, 255, 255, 255, 255, 255, 255, 255>>

\* The uint64_t of a natural number below 2^31.
U64(n) ==
    <<n % 256, (n \div 256) % 256, (n \div 65536) % 256,
      (n \div 16777216) % 256, 0, 0, 0, 0>>

\* Limb i of x, 0 beyond its length (a zero-extended read).
Limb(x, i) ==
    IF i >= 1 /\ i <= Len(x) THEN x[i] ELSE 0

RECURSIVE AddFrom(_, _, _, _)
AddFrom(a, b, i, carry) ==
    IF i > Limbs THEN <<>>
    ELSE LET s == a[i] + b[i] + carry
         IN <<s % 256>> \o AddFrom(a, b, i + 1, s \div 256)

\* a + b modulo 2^64.
Add64(a, b) ==
    AddFrom(a, b, 1, 0)

RECURSIVE SubFrom(_, _, _, _)
SubFrom(a, b, i, borrow) ==
    IF i > Len(a) THEN <<>>
    ELSE LET d == a[i] - Limb(b, i) - borrow
         IN <<d % 256>> \o SubFrom(a, b, i + 1, IF d < 0 THEN 1 ELSE 0)

\* a - b modulo 2^64 (modulo 256^Len(a) in general).
Sub64(a, b) ==
    SubFrom(a, b, 1, 0)

RECURSIVE LtFrom(_, _, _)
LtFrom(a, b, i) ==
    IF i < 1 THEN FALSE
    ELSE LET x == Limb(a, i)
             y == Limb(b, i)
         IN IF x # y THEN x < y ELSE LtFrom(a, b, i - 1)

\* a < b from limb i down, for a and b of one length.
RECURSIVE LtSame(_, _, _)
LtSame(a, b, i) ==
    IF i < 1 THEN FALSE
    ELSE IF a[i] # b[i] THEN a[i] < b[i]
    ELSE LtSame(a, b, i - 1)

\* a < b, unsigned.
Lt64(a, b) ==
    IF Len(a) = Len(b) THEN LtSame(a, b, Len(a))
    ELSE LtFrom(a, b, IF Len(a) > Len(b) THEN Len(a) ELSE Len(b))

Le64(a, b) ==
    ~Lt64(b, a)

RECURSIVE BitAnd(_, _)
BitAnd(x, y) ==
    IF x = 0 \/ y = 0 THEN 0
    ELSE (x % 2) * (y % 2) + 2 * BitAnd(x \div 2, y \div 2)

RECURSIVE BitOr(_, _)
BitOr(x, y) ==
    IF x = 0 THEN y
    ELSE IF y = 0 THEN x
    ELSE (IF x % 2 = 1 \/ y % 2 = 1 THEN 1 ELSE 0)
         + 2 * BitOr(x \div 2, y \div 2)

\* The bytes are written out one by one: a tuple is evaluated once, where a
\* function [i \in 1..8 |-> ...] would be evaluated again at every read.
And64(a, b) ==
    LET f(i) == BitAnd(a[i], b[i])
    IN <<f(1), f(2), f(3), f(4), f(5), f(6), f(7), f(8)>>

Or64(a, b) ==
    LET f(i) == BitOr(a[i], b[i])
    IN <<f(1), f(2), f(3), f(4), f(5), f(6), f(7), f(8)>>

Not64(a) ==
    LET f(i) == 255 - a[i]
    IN <<f(1), f(2), f(3), f(4), f(5), f(6), f(7), f(8)>>

Pow2(r) ==
    <<1, 2, 4, 8, 16, 32, 64, 128, 256>>[r + 1]

\* a >> k, for 0 <= k < 64.
Shr64(a, k) ==
    LET q == k \div 8
        r == k % 8
        f(i) == ((Limb(a, i + q) \div Pow2(r))
                 + (Limb(a, i + q + 1) * Pow2(8 - r))) % 256
    IN <<f(1), f(2), f(3), f(4), f(5), f(6), f(7), f(8)>>

\* Column k of the schoolbook product: the sum of a[i] * b[k - i + 1] for
\* i from lo to hi.
RECURSIVE ConvSum(_, _, _, _, _)
ConvSum(a, b, k, i, hi) ==
    IF i > hi THEN 0
    ELSE a[i] * b[k - i + 1] + ConvSum(a, b, k, i + 1, hi)

\* The bytes k .. n of the product of a and b, with the carry into byte k.
RECURSIVE MulFrom(_, _, _, _, _)
MulFrom(a, b, k, n, carry) ==
    IF k > n THEN <<>>
    ELSE LET lo == IF k > Limbs THEN k - Limbs + 1 ELSE 1
             hi == IF k > Limbs THEN Limbs ELSE k
             s == ConvSum(a, b, k, lo, hi) + carry
         IN <<s % 256>> \o MulFrom(a, b, k + 1, n, s \div 256)

\* The full 128-bit product of two uint64_t, 16 bytes.
MulWide(a, b) ==
    MulFrom(a, b, 1, 2 * Limbs, 0)

\* The bytes i .. 8 of a * d for a one-byte d, with the carry into byte i.
RECURSIVE MulShort(_, _, _, _)
MulShort(a, d, i, carry) ==
    IF i > Limbs THEN <<>>
    ELSE LET p == a[i] * d + carry
         IN <<p % 256>> \o MulShort(a, d, i + 1, p \div 256)

\* a * b modulo 2^64, the C product of two uint64_t.  A one-byte factor is
\* multiplied by short multiplication.
Mul64(a, b) ==
    IF SubSeq(b, 2, Limbs) = SubSeq(Zero64, 2, Limbs)
    THEN MulShort(a, b[1], 1, 0)
    ELSE IF SubSeq(a, 2, Limbs) = SubSeq(Zero64, 2, Limbs)
    THEN MulShort(b, a[1], 1, 0)
    ELSE MulFrom(a, b, 1, Limbs, 0)

\* Bit j (0..63) of a.
BitOf(a, j) ==
    (a[(j \div 8) + 1] \div Pow2(j % 8)) % 2

\* 2 * r + bit, on 9 bytes so that the doubled remainder never wraps.
ShlIn(r, bit) ==
    LET f(i) == (2 * r[i] + (IF i = 1 THEN bit ELSE r[i - 1] \div 128)) % 256
    IN <<f(1), f(2), f(3), f(4), f(5), f(6), f(7), f(8), f(9)>>

\* One step of binary long division of a by b: st is <<j, q, r>>, the bit
\* of a to bring down, the quotient so far and the remainder so far.
DivStep(a, b, st) ==
    LET j == st[1]
        r2 == ShlIn(st[3], BitOf(a, j))
        ge == ~Lt64(r2, b)
    IN <<j - 1,
         IF ge THEN [st[2] EXCEPT ![(j \div 8) + 1] = @ + Pow2(j % 8)]
         ELSE st[2],
         IF ge THEN Sub64(r2, b) ELSE r2>>

\* The quotient once every bit of a from st[1] down to 0 is brought down.
RECURSIVE DivLoop(_, _, _)
DivLoop(a, b, st) ==
    IF st[1] < 0 THEN st[2]
    ELSE DivLoop(a, b, DivStep(a, b, st))

RECURSIVE TopBit(_, _)
TopBit(a, j) ==
    IF j < 0 THEN -1
    ELSE IF a[(j \div 8) + 1] = 0 THEN TopBit(a, 8 * (j \div 8) - 1)
    ELSE IF BitOf(a, j) = 1 THEN j
    ELSE TopBit(a, j - 1)

\* Short division of a by a one-byte d, from byte i down to byte 1 with
\* the remainder rem so far: the quotient's bytes 1 .. i.
RECURSIVE DivShort(_, _, _, _)
DivShort(a, d, i, rem) ==
    IF i < 1 THEN <<>>
    ELSE LET cur == rem * 256 + a[i]
         IN DivShort(a, d, i - 1, cur % d) \o <<cur \div d>>

\* a / b for b # 0, the C quotient of two uint64_t (rounds down).  A
\* one-byte divisor is divided by short division.  Otherwise the leading
\* bits of a that b has (fewer than TopBit(b) + 1 bits make a number below
\* b, so their quotient bits are 0) start the remainder, and the other
\* bits are brought down one by one.
Div64(a, b) ==
    IF Lt64(b, U64(256)) THEN DivShort(a, b[1], Limbs, 0)
    ELSE LET k == TopBit(a, 63) - TopBit(b, 63)
         IN IF k < 0 THEN Zero64
            ELSE DivLoop(a, b, <<k, Zero64, Shr64(a, k + 1) \o <<0>>>>)

(***************************************************************************)
(* The byte primitives.  Memory is a buffer of bytes, mem[1] .. mem[n]; a  *)
(* pointer is the index of the byte it points to, and 0 is the null        *)
(* pointer.                                                                *)
(***************************************************************************)
\* for (i = 0; i < len; i++) dst[i] = src[i], from index i on.
RECURSIVE CopyUp(_, _, _, _, _)
CopyUp(m, dst, src, i, len) ==
    IF i >= len THEN m
    ELSE CopyUp([m EXCEPT ![dst + i] = m[src + i]], dst, src, i + 1, len)

\* for (i = len - 1; i >= 0; i--) dest[i] = source[i], from index i down.
RECURSIVE CopyDown(_, _, _, _)
CopyDown(m, dst, src, i) ==
    IF i < 0 THEN m
    ELSE CopyDown([m EXCEPT ![dst + i] = m[src + i]], dst, src, i - 1)

\* sol_memcpy with the loop bound i < len - 1.
sol_memcpy_Short(m, dst, src, len) ==
    IF dst = 0 \/ src = 0 THEN m
    ELSE CopyUp(m, dst, src, 0, len - 1)

\* sol_memcpy(dst, src, len) on memory m: the memory after the call.
sol_memcpy(m, dst, src, len) ==
    IF dst = 0 \/ src = 0 THEN m
    ELSE CopyUp(m, dst, src, 0, len)

\* sol_memmove copying forward whatever the order of dst and src.
sol_memmove_Forward(m, dst, src, len) ==
    IF dst = 0 \/ src = 0 \/ src = dst THEN m
    ELSE sol_memcpy(m, dst, src, len)

\* sol_memmove(dst, src, len) on memory m: the memory after the call.  The
\* backward loop is no else branch: it runs after the forward copy too.
sol_memmove(m, dst, src, len) ==
    IF dst = 0 \/ src = 0 \/ src = dst THEN m
    ELSE CopyDown(IF dst < src THEN sol_memcpy(m, dst, src, len) ELSE m,
                  dst, src, len - 1)

\* The loop of sol_memcmp from index i on: uint8_t diff = s1[i] - s2[i].
RECURSIVE CmpFrom(_, _, _, _, _)
CmpFrom(m, s1, s2, i, n) ==
    IF i >= n THEN 0
    ELSE LET diff == (m[s1 + i] - m[s2 + i]) % 256
         IN IF diff # 0 THEN diff ELSE CmpFrom(m, s1, s2, i + 1, n)

\* sol_memcmp(s1, s2, n) on memory m: the value returned.
sol_memcmp(m, s1, s2, n) ==
    IF s1 = 0 \/ s2 = 0 THEN 1
    ELSE CmpFrom(m, s1, s2, 0, n)

\* while (len > 0) { *a = c; a++; len--; }: the store through the uint8_t
\* pointer keeps the low 8 bits of the int c.
RECURSIVE FillFrom(_, _, _, _)
FillFrom(m, a, c, len) ==
    IF len <= 0 THEN m
    ELSE FillFrom([m EXCEPT ![a] = c % 256], a + 1, c, len - 1)

\* sol_memset(b, c, len) on memory m: the memory after the call.
sol_memset(m, b, c, len) ==
    IF b = 0 THEN m
    ELSE FillFrom(m, b, c, len)

\* What a call that reads an unreadable address yields: the program is
\* stopped by the access violation and no value is returned.
Killed ==
    0 - 1

\* The loop of sol_strlen with the fourth test returning s - ref + 4.
RECURSIVE ScanFrom_OffByOne(_, _, _)
ScanFrom_OffByOne(m, ref, s) ==
    IF s > Len(m) THEN Killed
    ELSE IF m[s] = 0 THEN s - ref
    ELSE IF s + 1 > Len(m) THEN Killed
    ELSE IF m[s + 1] = 0 THEN s - ref + 1
    ELSE IF s + 2 > Len(m) THEN Killed
    ELSE IF m[s + 2] = 0 THEN s - ref + 2
    ELSE IF s + 3 > Len(m) THEN Killed
    ELSE IF m[s + 3] = 0 THEN s - ref + 4
    ELSE ScanFrom_OffByOne(m, ref, s + 4)

\* The loop of sol_strlen, four bytes a step, each byte read only when the
\* bytes before it are not 0.  m is the readable memory: a read beyond it
\* stops the program.
RECURSIVE ScanFrom(_, _, _)
ScanFrom(m, ref, s) ==
    IF s > Len(m) THEN Killed
    ELSE IF m[s] = 0 THEN s - ref
    ELSE IF s + 1 > Len(m) THEN Killed
    ELSE IF m[s + 1] = 0 THEN s - ref + 1
    ELSE IF s + 2 > Len(m) THEN Killed
    ELSE IF m[s + 2] = 0 THEN s - ref + 2
    ELSE IF s + 3 > Len(m) THEN Killed
    ELSE IF m[s + 3] = 0 THEN s - ref + 3
    ELSE ScanFrom(m, ref, s + 4)

sol_strlen_OffByOne(m, s) ==
    IF s = 0 THEN 0
    ELSE ScanFrom_OffByOne(m, s, s)

\* sol_strlen(s) on readable memory m: the value returned, or Killed when
\* no zero byte is found in it.
sol_strlen(m, s) ==
    IF s = 0 THEN 0
    ELSE ScanFrom(m, s, s)

(***************************************************************************)
(* The bump allocator.                                                     *)
(***************************************************************************)
\* #define HEAP_START_ADDRESS (0x300000000)
HEAP_START_ADDRESS ==
    <<0, 0, 0, 0, 3, 0, 0, 0>>

\* #define HEAP_LENGTH (32 * 1024)
HEAP_LENGTH == 32768

\* sizeof(uint8_t*) on the 64-bit BPF target: the size of the cursor word.
WordSize == 8

NULL ==
    Zero64

\* HEAP_START_ADDRESS + HEAP_LENGTH, the cursor of a fresh heap.
HeapEnd ==
    Add64(HEAP_START_ADDRESS, U64(HEAP_LENGTH))

\* HEAP_START_ADDRESS + sizeof(uint8_t*), the lowest address handed out.
HeapLow ==
    Add64(HEAP_START_ADDRESS, U64(WordSize))

\* align = size; align--; align |= align >> 1, 2, 4, 8, 16, 32; align++
\* (every step modulo 2^64: 0 for size = 0 and for size > 2^63).
AlignOf(size) ==
    LET a0 == Sub64(size, One64)
        a1 == Or64(a0, Shr64(a0, 1))
        a2 == Or64(a1, Shr64(a1, 2))
        a3 == Or64(a2, Shr64(a2, 4))
        a4 == Or64(a3, Shr64(a3, 8))
        a5 == Or64(a4, Shr64(a4, 16))
        a6 == Or64(a5, Shr64(a5, 32))
    IN Add64(a6, One64)

\* The overflow test without its division: only size == 0 is refused.
Overflows_SizeOnly(nitems, size, bytes) ==
    size = Zero64

\* The overflow test of sol_calloc: size == 0, or nitems and size both
\* non-zero and nitems != bytes / size.
Overflows(nitems, size, bytes) ==
    \/ size = Zero64
    \/ /\ ~(nitems = Zero64 \/ size = Zero64)
       /\ ~(nitems = Div64(bytes, size))

\* sol_calloc without "pos &= ~(align - 1)".
sol_calloc_Unaligned(cur, nitems, size) ==
    LET pos0 == IF cur = Zero64 THEN HeapEnd ELSE cur
        bytes == Mul64(nitems, size)
    IN IF Overflows(nitems, size, bytes)
       THEN [ret |-> NULL, cursor |-> cur]
       ELSE LET pos1 == IF Lt64(pos0, bytes) THEN Zero64
                        ELSE Sub64(pos0, bytes)
            IN IF Lt64(pos1, HeapLow)
               THEN [ret |-> NULL, cursor |-> cur]
               ELSE [ret |-> pos1, cursor |-> pos1]

\* sol_calloc with "*pos_ptr = pos" moved before the bounds check: a failed
\* call stores the saturated cursor.
sol_calloc_StoreFirst(cur, nitems, size) ==
    LET pos0 == IF cur = Zero64 THEN HeapEnd ELSE cur
        bytes == Mul64(nitems, size)
    IN IF Overflows(nitems, size, bytes)
       THEN [ret |-> NULL, cursor |-> cur]
       ELSE LET pos1 == IF Lt64(pos0, bytes) THEN Zero64
                        ELSE Sub64(pos0, bytes)
                align == AlignOf(size)
                pos2 == And64(pos1, Not64(Sub64(align, One64)))
            IN IF Lt64(pos2, HeapLow)
               THEN [ret |-> NULL, cursor |-> pos2]
               ELSE [ret |-> pos2, cursor |-> pos2]

\* sol_calloc with the bounds check against HEAP_START_ADDRESS, without
\* "+ sizeof(uint8_t*)".
sol_calloc_NoWordGuard(cur, nitems, size) ==
    LET pos0 == IF cur = Zero64 THEN HeapEnd ELSE cur
        bytes == Mul64(nitems, size)
    IN IF Overflows(nitems, size, bytes)
       THEN [ret |-> NULL, cursor |-> cur]
       ELSE LET pos1 == IF Lt64(pos0, bytes) THEN Zero64
                        ELSE Sub64(pos0, bytes)
                align == AlignOf(size)
                pos2 == And64(pos1, Not64(Sub64(align, One64)))
            IN IF Lt64(pos2, HEAP_START_ADDRESS)
               THEN [ret |-> NULL, cursor |-> cur]
               ELSE [ret |-> pos2, cursor |-> pos2]

\* sol_calloc(nitems, size) with the cursor word *pos_ptr holding cur:
\* the returned pointer and the cursor word after the call.
sol_calloc(cur, nitems, size) ==
    LET pos0 == IF cur = Zero64 THEN HeapEnd ELSE cur
        bytes == Mul64(nitems, size)
    IN IF Overflows(nitems, size, bytes)
       THEN [ret |-> NULL, cursor |-> cur]
       ELSE LET pos1 == IF Lt64(pos0, bytes) THEN Zero64
                        ELSE Sub64(pos0, bytes)
                align == AlignOf(size)
                pos2 == And64(pos1, Not64(Sub64(align, One64)))
            IN IF Lt64(pos2, HeapLow)
               THEN [ret |-> NULL, cursor |-> cur]
               ELSE [ret |-> pos2, cursor |-> pos2]

\* sol_free(ptr): "I'm a bump allocator, I don't free".
sol_free(cur, ptr) ==
    cur

(***************************************************************************)
(* The allocator as a state machine: the cursor word at HEAP_START_ADDRESS *)
(* and the calls made so far.                                              *)
(*   cursor    the uint64_t stored at HEAP_START_ADDRESS                   *)
(*   allocs    the calls that returned non-null, in order: the address     *)
(*             returned, nitems * size and size                            *)
(*   call      <<nitems, size>> of the last call, <<>> before the first    *)
(*   ret       what the last call returned                                 *)
(*   before    the cursor word when the last call was made                 *)
(*   minFail   the least size s >= 1 of the sol_calloc(1, s) calls that    *)
(*             returned null so far, <<>> when there is none               *)
(*   zeroFailed  a sol_calloc(1, 0) call has returned null                 *)
(*   only4096  every call so far was sol_calloc(1, 4096)                   *)
(*   smallCalls  the calls made so far with a small request                *)
(***************************************************************************)
\* The small requests a run makes at most.  The other requests need no
\* limit: they are refused, or take HEAP_LENGTH / 8 bytes or more each.
MaxSmallCalls == 1

\* 2^63 + 4: with size 2 the product wraps to 8.
Wrap8 ==
    <<4, 0, 0, 0, 0, 0, 0, 128>>

\* The <<nitems, size>> the calls are drawn from.
Requests ==
    { <<U64(1), U64(8)>>, <<U64(3), U64(5)>>, <<U64(1), U64(2048)>>,
      <<U64(1), U64(4096)>>, <<U64(0), U64(8)>>, <<U64(1), U64(0)>>,
      <<Max64, U64(2)>>, <<Wrap8, U64(2)>>, <<U64(1), Max64>> }

\* A request the arguments of which sol_calloc accepts, for fewer than
\* HEAP_LENGTH / 8 bytes: the heap has room for many of them.  This is a
\* property of nitems and size alone, not of the heap the call finds.
\* (bytes is nitems * size.)
SmallRequest(nitems, size, bytes) ==
    /\ ~Overflows(nitems, size, bytes)
    /\ Lt64(bytes, U64(HEAP_LENGTH \div 8))

\* No buffer: the byte primitives are not called.
IdleMem ==
    /\ mem = <<>>
    /\ pre = <<>>
    /\ op = "none"
    /\ args = <<>>
    /\ res = 0

Init ==
    /\ cursor = Zero64
    /\ allocs = <<>>
    /\ call = <<>>
    /\ ret = NULL
    /\ before = Zero64
    /\ minFail = <<>>
    /\ zeroFailed = FALSE
    /\ only4096 = TRUE
    /\ smallCalls = 0
    /\ IdleMem

Calloc(nitems, size) ==
    LET bytes == Mul64(nitems, size)
        small == SmallRequest(nitems, size, bytes)
    IN /\ small => smallCalls < MaxSmallCalls
       /\ smallCalls' = IF small THEN smallCalls + 1 ELSE smallCalls
       /\ \E r \in {sol_calloc(cursor, nitems, size)} :
              /\ cursor' = r.cursor
              /\ ret' = r.ret
              /\ before' = cursor
              /\ call' = <<nitems, size>>
              /\ allocs' = IF r.ret # NULL
                           THEN Append(allocs, [addr |-> r.ret,
                                                bytes |-> bytes,
                                                size |-> size])
                           ELSE allocs
              /\ minFail' = IF /\ r.ret = NULL
                               /\ nitems = One64
                               /\ size # Zero64
                               /\ (minFail = <<>> \/ Lt64(size, minFail))
                            THEN size
                            ELSE minFail
              /\ zeroFailed' = (zeroFailed \/ (/\ r.ret = NULL
                                               /\ nitems = One64
                                               /\ size = Zero64))
              /\ only4096' = (/\ only4096
                              /\ nitems = One64
                              /\ size = U64(4096))
       /\ UNCHANGED memVars

Free(ptr) ==
    /\ cursor' = sol_free(cursor, ptr)
    /\ UNCHANGED <<allocs, call, ret, before, minFail, zeroFailed, only4096,
                   smallCalls>>
    /\ UNCHANGED memVars

Next ==
    \/ \E rq \in Requests : Calloc(rq[1], rq[2])
    \/ \E i \in 1..Len(allocs) : Free(allocs[i].addr)

Spec ==
    Init /\ [][Next]_vars

(***************************************************************************)
(* Properties of the allocator.                                            *)
(***************************************************************************)
\* 2^k as a uint64_t, for 0 <= k < 64.
PowerOfTwo(k) ==
    [Zero64 EXCEPT ![(k \div 8) + 1] = Pow2(k % 8)]

\* 2^k is the smallest power of two >= size.
SmallestPowerAtLeast(k, size) ==
    /\ Le64(size, PowerOfTwo(k))
    /\ k > 0 => Lt64(PowerOfTwo(k - 1), size)

\* x is a multiple of 2^k: its k low bits are 0.
MultipleOfPower(x, k) ==
    \A j \in 0..(k - 1) : BitOf(x, j) = 0

\* The end of an allocation's region, on 9 bytes (no wrap).
RegionEnd(a) ==
    LET sum == Add64(a.addr, a.bytes)
    IN sum \o <<IF Lt64(sum, a.addr) THEN 1 ELSE 0>>

\* [a.addr, a.addr + a.bytes) and [b.addr, b.addr + b.bytes) share no byte.
Disjoint(a, b) ==
    \/ a.bytes = Zero64
    \/ b.bytes = Zero64
    \/ Le64(RegionEnd(a), b.addr)
    \/ Le64(RegionEnd(b), a.addr)

RECURSIVE SumBytes(_, _)
SumBytes(as, i) ==
    IF i > Len(as) THEN Zero64
    ELSE Add64(as[i].bytes, SumBytes(as, i + 1))

\* The sum of nitems * size over the calls that returned non-null.
TotalBytes ==
    SumBytes(allocs, 1)

\* The upper 8 bytes of the 128-bit product are 0: nitems * size < 2^64.
ProductFits(nitems, size) ==
    SubSeq(MulWide(nitems, size), Limbs + 1, 2 * Limbs) = Zero64

\* The last call failed although its arguments were valid: size # 0 and
\* the product did not overflow.  It did not fit below the cursor.
ExhaustedCall ==
    /\ call # <<>>
    /\ ret = NULL
    /\ call[2] # Zero64
    /\ ProductFits(call[1], call[2])

\* The last call took the "Saturated" branch, pos < bytes.
SaturatedCall ==
    /\ ExhaustedCall
    /\ Lt64(IF before = Zero64 THEN HeapEnd ELSE before,
            Mul64(call[1], call[2]))

\* C1: the regions of the calls that returned non-null are pairwise
\* disjoint, and each returned address is a multiple of the smallest power of
\* two >= the call's size argument.
C1_DisjointAligned ==
    /\ \A i, j \in 1..Len(allocs) :
           i < j => Disjoint(allocs[j], allocs[i])
    /\ \A i \in 1..Len(allocs) :
           \E k \in 0..63 :
               /\ SmallestPowerAtLeast(k, allocs[i].size)
               /\ MultipleOfPower(allocs[i].addr, k)

\* C1 witness: three regions handed out, one of them for a size (5) that is
\* no power of two, another one not empty.
C1_Witness ==
    /\ Len(allocs) >= 3
    /\ \E i, j \in 1..Len(allocs) :
           /\ allocs[i].size = U64(5)
           /\ j > i
           /\ allocs[j].bytes = U64(4096)

\* C3 as stated: a call that fails by heap exhaustion leaves 0 in the
\* cursor word.
C3_CursorZeroed ==
    ExhaustedCall => cursor = Zero64

\* C3 as amended: a call that fails by heap exhaustion leaves the cursor word
\* as it was (0 is assigned to the local pos only), so the cursor still is
\* the address returned last; and no call on a heap in use starts from a
\* fresh heap, whatever calls have failed before it: the cursor it finds is
\* the address returned last, and an address it returns is at or below
\* every address returned earlier, equal to one only for a request of 0
\* bytes.
C3_CursorKept ==
    /\ ExhaustedCall =>
           /\ cursor = before
           /\ allocs # <<>> => cursor = allocs[Len(allocs)].addr
    /\ (call # <<>> /\ ret # NULL /\ Len(allocs) >= 2) =>
           /\ before = allocs[Len(allocs) - 1].addr
           /\ \A i \in 1..(Len(allocs) - 1) :
                  /\ Le64(ret, allocs[i].addr)
                  /\ ret = allocs[i].addr
                         => Mul64(call[1], call[2]) = Zero64

\* C3 witness: on a heap in use a sol_calloc(1, s) call with s >= 1 has
\* failed (by exhaustion: with nitems 1 the product does not wrap), and a
\* later request of 0 bytes has been served at the address returned last.
C3_Witness ==
    /\ minFail # <<>>
    /\ ret # NULL
    /\ Len(allocs) >= 2
    /\ ret = allocs[Len(allocs) - 1].addr
    /\ Lt64(ret, HeapEnd)

\* After such a failure a request of 4096 bytes has been served, below the
\* address returned last.
C3_ResumedBelow ==
    /\ minFail # <<>>
    /\ ret # NULL
    /\ Len(allocs) >= 2
    /\ call = <<One64, U64(4096)>>
    /\ Lt64(ret, allocs[Len(allocs) - 1].addr)

\* A call that took the "Saturated" branch, pos < bytes, has returned null
\* on a heap in use.
C3_SaturatedSeen ==
    /\ SaturatedCall
    /\ Len(allocs) >= 2

\* C4: the cursor word is 0 or lies in [HEAP_START + 8, HEAP_START +
\* HEAP_LENGTH], and every region handed out lies inside [HEAP_START + 8,
\* HEAP_START + HEAP_LENGTH), clear of the cursor word.
C4_CursorAndRegionsInHeap ==
    /\ \/ cursor = Zero64
       \/ Le64(HeapLow, cursor) /\ Le64(cursor, HeapEnd)
    /\ \A i \in 1..Len(allocs) :
           /\ Le64(HeapLow, allocs[i].addr)
           /\ Le64(RegionEnd(allocs[i]), HeapEnd)

\* C4 witness: the cursor is at HEAP_START + 4096 and a request for 4096
\* bytes, which would end on the cursor word, has been refused.
C4_Witness ==
    /\ cursor = Add64(HEAP_START_ADDRESS, U64(4096))
    /\ call = <<One64, U64(4096)>>
    /\ ret = NULL

\* C5: the bytes handed out sum to at most HEAP_LENGTH - 8.
C5_TotalWithinHeap ==
    Le64(TotalBytes, U64(HEAP_LENGTH - WordSize))

\* C5 witness: seven 4096-byte allocations and a smaller one were handed out.
C5_Witness ==
    /\ Lt64(U64(7 * 4096), TotalBytes)
    /\ Len(allocs) >= 8

\* C6 as stated: of repeated sol_calloc(1, 4096) calls on a fresh heap at most
\* 7 return non-null; and a sol_calloc(1, s') call returns non-null only if
\* no earlier sol_calloc(1, s) call with s <= s' returned null.
C6_NullStaysNull ==
    /\ only4096 => Len(allocs) <= 7
    /\ (call # <<>> /\ call[1] = One64 /\ ret # NULL) =>
           /\ ~zeroFailed
           /\ minFail = <<>> \/ Lt64(call[2], minFail)

\* C6 as amended: the same, for the earlier calls with s >= 1 (a
\* sol_calloc(1, 0) call returns null on any heap).
C6_NullStaysNullPositive ==
    /\ only4096 => Len(allocs) <= 7
    /\ (call # <<>> /\ call[1] = One64 /\ ret # NULL) =>
           minFail = <<>> \/ Lt64(call[2], minFail)

\* C6 witness: sol_calloc(1, 4096) has returned null, and a later smaller
\* request has been served.
C6_Witness ==
    /\ minFail = U64(4096)
    /\ call = <<One64, U64(8)>>
    /\ ret # NULL

\* C6 witness of the first part: the eighth of eight sol_calloc(1, 4096)
\* calls has returned null.
C6_RepeatWitness ==
    /\ only4096
    /\ Len(allocs) = 7
    /\ ret = NULL

\* C7: a call with size 0 or a wrapping product returns null and leaves the
\* cursor word unchanged, and a call returns non-null only if
\* nitems * size < 2^64.
C7_OverflowRejected ==
    /\ (/\ call # <<>>
        /\ \/ call[2] = Zero64
           \/ call[1] # Div64(Mul64(call[1], call[2]), call[2]))
       => (ret = NULL /\ cursor = before)
    /\ (call = <<Max64, U64(2)>>) => ret = NULL
    /\ (call # <<>> /\ ret # NULL) => ProductFits(call[1], call[2])

\* C7 witness: on a heap in use, a call whose product wraps to 8 has
\* returned null.
C7_Witness ==
    /\ call = <<Wrap8, U64(2)>>
    /\ ~ProductFits(call[1], call[2])
    /\ Mul64(call[1], call[2]) = U64(8)
    /\ cursor # Zero64
    /\ ret = NULL

(***************************************************************************)
(* The byte primitives as a state machine: one call on a buffer, and for   *)
(* sol_memcpy the sol_memcmp of the two regions after it.                  *)
(*   mem   the buffer                                                      *)
(*   pre   the buffer before the call                                      *)
(*   op    the call made: "none", "memcpy", "memcpy_memcmp", "memmove",    *)
(*         "memcmp", "memset", "strlen"                                    *)
(*   args  its arguments: <<dst, src, len>>, <<s1, s2, n>>, <<b, c, len>>, *)
(*         or <<s, tail>> with the readable bytes that follow the buffer   *)
(*   res   the value returned (0 for the functions that return none)       *)
(***************************************************************************)
\* The length of the buffers filled from Alphabet.
MemLen == 6

\* The greatest len / n argument.
MaxLen == 6

\* The greatest number of readable bytes that follow the buffer.
MaxTail == 3

Alphabet ==
    {0, 200}

\* "abcdefgh"
Abcdefgh ==
    <<97, 98, 99, 100, 101, 102, 103, 104>>

\* "the quick brown fox" and its terminator.
Fox ==
    <<116, 104, 101, 32, 113, 117, 105, 99, 107, 32,
      98, 114, 111, 119, 110, 32, 102, 111, 120, 0>>

Buffers ==
    [1..MemLen -> Alphabet] \cup {Abcdefgh, Fox}

Pointers ==
    0..Len(mem)

Lens ==
    (0 - 1)..MaxLen

\* The size_t len of sol_memset.
Sizes ==
    0..MaxLen

\* The int c of sol_memset: bytes, and values a byte does not hold.
Fills ==
    {0, 200, 300, 0 - 1}

\* The readable bytes that follow the buffer in memory; what follows them
\* cannot be read.
Tails ==
    UNION {[1..n -> Alphabet] : n \in 0..MaxTail}

\* The len bytes at p are bytes of the buffer (none are read through a
\* null pointer).
InBuffer(p, len) ==
    p = 0 \/ p + len - 1 <= Len(mem)

\* A zero byte at or after s.
Terminated(m, s) ==
    s # 0 /\ \E i \in s..Len(m) : m[i] = 0

IdleHeap ==
    /\ cursor = Zero64
    /\ allocs = <<>>
    /\ call = <<>>
    /\ ret = NULL
    /\ before = Zero64
    /\ minFail = <<>>
    /\ zeroFailed = FALSE
    /\ only4096 = TRUE
    /\ smallCalls = 0

MemInit ==
    /\ mem \in Buffers
    /\ pre = mem
    /\ op = "none"
    /\ args = <<>>
    /\ res = 0
    /\ IdleHeap

\* A call of sol_memcpy(dst, src, len).
Memcpy ==
    /\ op = "none"
    /\ \E dst \in Pointers, src \in Pointers, len \in Lens :
           /\ InBuffer(dst, len) /\ InBuffer(src, len)
           /\ mem' = sol_memcpy(mem, dst, src, len)
           /\ args' = <<dst, src, len>>
    /\ pre' = mem
    /\ op' = "memcpy"
    /\ res' = 0
    /\ UNCHANGED heapVars

\* sol_memcmp of the regions a sol_memcpy has just copied.
MemcmpCopied ==
    /\ op = "memcpy"
    /\ res' = sol_memcmp(mem, args[1], args[2], args[3])
    /\ op' = "memcpy_memcmp"
    /\ UNCHANGED <<mem, pre, args>>
    /\ UNCHANGED heapVars

\* A call of sol_memmove(dst, src, len).
Memmove ==
    /\ op = "none"
    /\ \E dst \in Pointers, src \in Pointers, len \in Lens :
           /\ InBuffer(dst, len) /\ InBuffer(src, len)
           /\ mem' = sol_memmove(mem, dst, src, len)
           /\ args' = <<dst, src, len>>
    /\ pre' = mem
    /\ op' = "memmove"
    /\ res' = 0
    /\ UNCHANGED heapVars

\* A call of sol_memcmp(s1, s2, n).
Memcmp ==
    /\ op = "none"
    /\ \E s1 \in Pointers, s2 \in Pointers, n \in Lens :
           /\ InBuffer(s1, n) /\ InBuffer(s2, n)
           /\ res' = sol_memcmp(mem, s1, s2, n)
           /\ args' = <<s1, s2, n>>
    /\ pre' = mem
    /\ op' = "memcmp"
    /\ UNCHANGED mem
    /\ UNCHANGED heapVars

\* A call of sol_memset(b, c, len).  The function ends without a return
\* statement: there is no value for a caller to read.
Memset ==
    /\ op = "none"
    /\ \E b \in Pointers, c \in Fills, len \in Sizes :
           /\ InBuffer(b, len)
           /\ mem' = sol_memset(mem, b, c, len)
           /\ args' = <<b, c, len>>
    /\ pre' = mem
    /\ op' = "memset"
    /\ res' = 0
    /\ UNCHANGED heapVars

\* A call of sol_strlen(s), with the buffer followed in memory by the
\* readable bytes of tail.  On an unterminated string the scan runs into
\* them, and beyond them into an address that cannot be read.
Strlen ==
    /\ op = "none"
    /\ \E s \in Pointers, tail \in Tails :
           /\ res' = sol_strlen(mem \o tail, s)
           /\ args' = <<s, tail>>
    /\ pre' = mem
    /\ op' = "strlen"
    /\ UNCHANGED mem
    /\ UNCHANGED heapVars

MemNext ==
    \/ Memcpy
    \/ MemcmpCopied
    \/ Memmove
    \/ Memcmp
    \/ Memset
    \/ Strlen

MemSpec ==
    MemInit /\ [][MemNext]_vars

(***************************************************************************)
(* Properties of the byte primitives.                                      *)
(***************************************************************************)
\* The last call was op, with non-null pointers and a length >= 0.
Called(name) ==
    /\ op = name
    /\ args[1] # 0
    /\ args[2] # 0
    /\ args[3] >= 0

\* The regions [p, p + len) and [q, q + len) share no byte.
Apart(p, q, len) ==
    p + len <= q \/ q + len <= p

\* C2: sol_memmove(base, base + k, L) with 0 <= k <= L leaves in base[0..L)
\* the bytes base+k[0..L) held before the call; on "abcdefgh",
\* sol_memmove(buf + 0, buf + 2, 6) yields "cdefghgh".
C2_MoveDownIsSnapshot ==
    /\ (/\ Called("memmove")
        /\ args[1] <= args[2]
        /\ args[2] - args[1] <= args[3])
       => \A i \in 0..(args[3] - 1) : mem[args[1] + i] = pre[args[2] + i]
    /\ (op = "memmove" /\ pre = Abcdefgh /\ args = <<1, 3, 6>>)
       => mem = <<99, 100, 101, 102, 103, 104, 103, 104>>

\* C8: sol_strlen of a terminated string returns the index of its first zero
\* byte, and sol_strlen(null) returns 0.
C8_StrlenFirstZero ==
    /\ (op = "strlen" /\ Terminated(pre, args[1]))
       => /\ res >= 0
          /\ args[1] + res <= Len(pre)
          /\ pre[args[1] + res] = 0
          /\ \A i \in 0..(res - 1) : pre[args[1] + i] # 0
    /\ (op = "strlen" /\ args[1] = 0) => res = 0

\* C8 witness: the terminator of "the quick brown fox" was found in the
\* fifth step of four bytes, at the fourth byte of the step.
C8_Witness ==
    /\ op = "strlen"
    /\ pre = Fox
    /\ args[1] = 1
    /\ res = 19

\* C9: sol_memcpy between regions that do not overlap, then sol_memcmp of
\* the two regions, returns 0 and leaves the source as it was; sol_memcmp
\* returns 0 when the first n bytes are equal and (s1[i] - s2[i]) mod 256 at
\* the first differing index i otherwise.
C9_CopyThenCompare ==
    /\ (Called("memcpy_memcmp") /\ Apart(args[1], args[2], args[3]))
       => /\ res = 0
          /\ \A i \in 0..(args[3] - 1) : mem[args[2] + i] = pre[args[2] + i]
    /\ (op = "memcmp" /\ args[1] # 0 /\ args[2] # 0)
       => LET differ == {i \in 0..(args[3] - 1) :
                            pre[args[1] + i] # pre[args[2] + i]}
              first == CHOOSE i \in differ : \A j \in differ : i <= j
          IN IF differ = {} THEN res = 0
             ELSE /\ res # 0
                  /\ res = (pre[args[1] + first] - pre[args[2] + first]) % 256

\* C9 witness: six bytes of "the quick brown fox" were copied over six
\* other, different bytes of it and the regions compared.
C9_Witness ==
    /\ Called("memcpy_memcmp")
    /\ pre = Fox
    /\ args = <<1, 11, 6>>
    /\ mem # pre

\* C10: sol_memmove(base + k, base, L) with k > 0 leaves in base+k[0..L) the
\* bytes base[0..L) held before the call and changes no other byte; on
\* "abcdefgh", sol_memmove(buf + 2, buf + 0, 6) yields "ababcdef"; with a
\* null pointer or dst == src no byte is written.
C10_MoveUpIsSnapshot ==
    /\ (Called("memmove") /\ args[1] > args[2])
       => /\ \A i \in 0..(args[3] - 1) : mem[args[1] + i] = pre[args[2] + i]
          /\ \A j \in 1..Len(mem) :
                 (j < args[1] \/ j >= args[1] + args[3]) => mem[j] = pre[j]
    /\ (op = "memmove" /\ pre = Abcdefgh /\ args = <<3, 1, 6>>)
       => mem = <<97, 98, 97, 98, 99, 100, 101, 102>>
    /\ (/\ op = "memmove"
        /\ (args[1] = 0 \/ args[2] = 0 \/ args[1] = args[2]))
       => mem = pre

\* C10 witness: sol_memmove(buf + 2, buf + 0, 6) was called on "abcdefgh".
C10_Witness ==
    /\ op = "memmove"
    /\ pre = Abcdefgh
    /\ args = <<3, 1, 6>>

=============================================================================
